---------------------------- MODULE Spec2Model ----------------------------
(***************************************************************************)
(* The two exit-node selector scripts, set-exit.py and exits.py, as one    *)
(* state machine: one invocation of a script is a run that moves through   *)
(* main -> get_exit_node_list -> parse/enumerate/match -> random.choice -> *)
(* validate -> preview | set_exit_node.  Text is modelled as text: a       *)
(* string is a sequence of characters, and strip, split, re.split, lower,  *)
(* `in`, join, sorted, re.match and the f-strings are computed as Python   *)
(* computes them.                                                          *)
(***************************************************************************)
EXTENDS Integers, Sequences, FiniteSets, TLC

VARIABLES
    script,             \* which script runs: "set-exit" or "exits"
    pattern,            \* the positional argument (PATTERN / COUNTRY)
    hostname,           \* --hostname (set-exit.py only)
    city,               \* --city (set-exit.py only)
    dry_run,            \* --dry-run
    listing,            \* what `tailscale exit-node list` prints when it succeeds
    pc,                 \* where the run stands
    nodes,              \* parse_exit_nodes(output)
    values,             \* values (set-exit.py), countries (exits.py)
    matching_values,    \* matching_values / matching_countries
    filtered_nodes,     \* filtered_nodes
    selected_node,      \* selected_node of get_node (set-exit.py), of main (exits.py)
    main_selected_node, \* set-exit.py main: what get_node returned
    node_ip,            \* node_ip of main
    calls,              \* every subprocess.run so far: its argv and exit code
    stdout,             \* click.echo(...)
    stderr,             \* click.echo(..., err=True)
    outcome             \* "running", "returned", or the exception that ended the run

inputs == <<script, pattern, hostname, city, dry_run, listing>>

locals == <<nodes, values, matching_values, filtered_nodes, selected_node,
            main_selected_node, node_ip>>

vars == <<script, pattern, hostname, city, dry_run, listing,
          pc, nodes, values, matching_values, filtered_nodes, selected_node,
          main_selected_node, node_ip, calls, stdout, stderr, outcome>>

(***************************************************************************)
(* Bounds of the model.                                                    *)
(***************************************************************************)
\* Most lines of a listing the listing collaborator prints.
MaxLines == 2

(***************************************************************************)
(* Python str primitives.                                                  *)
(***************************************************************************)
Char(s, i) == SubSeq(s, i, i)

\* The characters the model's texts are written in, in code point order.
Alphabet == "\t\n\f\r #'(),-.0123456789:ABCDEFGHIJKLMNOPQRSTUVWXYZabcdefghijklmnopqrstuvwxyz"

AlphabetChars == {Char(Alphabet, i) : i \in 1..Len(Alphabet)}

\* ord(c), up to the order of the code points.
OrdTable == [c \in AlphabetChars |-> CHOOSE i \in 1..Len(Alphabet) : Char(Alphabet, i) = c]

Ord(c) == OrdTable[c]

UpperCase == "ABCDEFGHIJKLMNOPQRSTUVWXYZ"
LowerCase == "abcdefghijklmnopqrstuvwxyz"
Digits == {"0", "1", "2", "3", "4", "5", "6", "7", "8", "9"}

\* str.isspace of one character (what strip(), split() and \s take as blank),
\* among the characters of Alphabet; Python knows more blanks (\v, the
\* separators \x1c-\x1f, the Unicode spaces), which no text here holds.
IsSpace(c) == c \in {" ", "\t", "\n", "\r", "\f"}

LowerTable ==
    [c \in AlphabetChars |->
        IF \E i \in 1..Len(UpperCase) : Char(UpperCase, i) = c
        THEN Char(LowerCase, CHOOSE i \in 1..Len(UpperCase) : Char(UpperCase, i) = c)
        ELSE c]

LowerChar(c) == LowerTable[c]

RECURSIVE Lower(_)
\* str.lower(), by halves.
Lower(s) ==
    IF Len(s) = 0 THEN ""
    ELSE IF Len(s) = 1 THEN LowerChar(s)
    ELSE Lower(SubSeq(s, 1, Len(s) \div 2)) \o Lower(SubSeq(s, Len(s) \div 2 + 1, Len(s)))

\* Python's `needle in hay` on two strings.
Contains(hay, needle) ==
    \E i \in 1..(Len(hay) - Len(needle) + 1) :
        SubSeq(hay, i, i + Len(needle) - 1) = needle

\* str.startswith
StartsWith(s, p) == Len(p) <= Len(s) /\ SubSeq(s, 1, Len(p)) = p

\* The positions of s that hold no blank.
NonBlank(s) == {i \in 1..Len(s) : ~IsSpace(Char(s, i))}

Min(S) == CHOOSE x \in S : \A y \in S : x <= y
Max(S) == CHOOSE x \in S : \A y \in S : x >= y

\* str.strip()
Strip(s) ==
    LET kept == NonBlank(s)
    IN  IF kept = {} THEN "" ELSE SubSeq(s, Min(kept), Max(kept))

\* The elements of a set of integers, ascending.
Ascending(S) ==
    [k \in 1..Cardinality(S) |-> CHOOSE x \in S : Cardinality({y \in S : y < x}) = k - 1]

\* str.split(sep) for a one-character sep: empty pieces are kept.
SplitChar(s, sep) ==
    LET at == Ascending({i \in 1..Len(s) : Char(s, i) = sep})
        n == Len(at)
    IN  [k \in 1..(n + 1) |->
            SubSeq(s, IF k = 1 THEN 1 ELSE at[k - 1] + 1,
                      IF k = n + 1 THEN Len(s) ELSE at[k] - 1)]

SplitLines(s) == SplitChar(s, "\n")

\* Position i of s lies in a run of at least m blanks: in a match of \s{m,}.
InSeparator(s, m, i) ==
    \E a \in (i - m + 1)..i :
        /\ a >= 1
        /\ a + m - 1 <= Len(s)
        /\ \A j \in a..(a + m - 1) : IsSpace(Char(s, j))

\* re.split(r"\s{m,}", s): the separators are the maximal runs of at least m
\* blanks, a shorter run stays inside its field, and a separator at either
\* end leaves an empty field there.
\* The maximal runs of the positions inField, as the texts they hold, in order.
Fields(s, inField) ==
    LET starts == Ascending({i \in inField : i = 1 \/ (i - 1) \notin inField})
        ends == Ascending({i \in inField : i = Len(s) \/ (i + 1) \notin inField})
    IN  [k \in 1..Len(starts) |-> SubSeq(s, starts[k], ends[k])]

ReSplitRuns(s, m) ==
    LET inField == {i \in 1..Len(s) : ~InSeparator(s, m, i)}
    IN  IF s = "" THEN <<"">>
        ELSE (IF 1 \in inField THEN <<>> ELSE <<"">>)
             \o Fields(s, inField)
             \o (IF Len(s) \in inField THEN <<>> ELSE <<"">>)

\* re_split_2 gone wrong: one blank already separates two fields.
re_split_1(s) == ReSplitRuns(s, 1)

\* re.split(r"\s{2,}", s)
re_split_2(s) == ReSplitRuns(s, 2)

\* str.split() without arguments: runs of blanks separate, no empty piece.
str_split(s) == Fields(s, NonBlank(s))

RECURSIVE Join(_, _)
\* sep.join(parts)
Join(sep, parts) ==
    IF parts = <<>> THEN ""
    ELSE IF Len(parts) = 1 THEN parts[1]
    ELSE parts[1] \o sep \o Join(sep, Tail(parts))

\* a < b on Python strings: lexicographic by code point.
StrLess(a, b) ==
    \E i \in 1..Len(b) :
        /\ i <= Len(a) + 1
        /\ SubSeq(a, 1, i - 1) = SubSeq(b, 1, i - 1)
        /\ (i = Len(a) + 1 \/ Ord(Char(a, i)) < Ord(Char(b, i)))

RECURSIVE Sorted(_)
\* sorted(list(S)) of a set of strings.
Sorted(S) ==
    IF S = {} THEN <<>>
    ELSE LET m == CHOOSE x \in S : \A y \in S : x = y \/ StrLess(x, y)
         IN  <<m>> \o Sorted(S \ {m})

RECURSIVE SelectSeqOf(_, _, _)
\* [node for node in seq if node[f] == v]
SelectSeqOf(seq, f, v) ==
    IF seq = <<>> THEN <<>>
    ELSE (IF seq[1][f] = v THEN <<seq[1]>> ELSE <<>>) \o SelectSeqOf(Tail(seq), f, v)

AllDigits(s) == \A i \in 1..Len(s) : Char(s, i) \in Digits

\* re_match_ip gone wrong: every ip passes.
re_match_ip_any(ip) == TRUE

\* re.match(r"^\d{1,3}\.\d{1,3}\.\d{1,3}\.\d{1,3}$", ip): four dot-separated
\* groups of one to three digits; `$` also matches before one final newline.
re_match_ip(ip) ==
    LET body == IF ip # "" /\ Char(ip, Len(ip)) = "\n"
                THEN SubSeq(ip, 1, Len(ip) - 1) ELSE ip
        groups == SplitChar(body, ".")
    IN  /\ Len(groups) = 4
        /\ \A i \in 1..4 : Len(groups[i]) \in 1..3 /\ AllDigits(groups[i])

(***************************************************************************)
(* Records and parsing.                                                    *)
(***************************************************************************)
\* Python's None, as get_node returns it after reporting an error.
None == [none |-> TRUE]

Node(ip, h, country, c) == [ip |-> ip, hostname |-> h, country |-> country, city |-> c]

\* The node get_node returns for the pattern "none".
EmptyNode == Node("", "", "", "")

\* line.startswith("#")
is_comment(line) == StartsWith(line, "#")

\* set-exit.py, lines 118-127: the record of a line that is no comment, if any.
LineNodesSetExit(line) ==
    LET parts == re_split_2(Strip(line))
    IN  IF Len(parts) >= 4
        THEN <<Node(parts[1], parts[2], parts[3], parts[4])>>
        ELSE <<>>

RECURSIVE ParseLinesSetExit(_, _)
\* The loop of set-exit.py's parse_exit_nodes over the lines.
ParseLinesSetExit(lines, acc) ==
    IF lines = <<>> THEN acc
    ELSE IF is_comment(lines[1]) THEN ParseLinesSetExit(Tail(lines), acc)
    ELSE ParseLinesSetExit(Tail(lines), acc \o LineNodesSetExit(lines[1]))

\* set-exit.py: parse_exit_nodes(output)
parse_exit_nodes(output) == ParseLinesSetExit(SplitLines(Strip(output)), <<>>)

\* The multi-word countries exits.py knows.
KnownCountries == {"South Africa", "United States", "United Kingdom"}

\* country_found gone wrong: a known country with nothing after it is taken.
country_found_norest(potential_country, rest) == potential_country \in KnownCountries

\* exits.py: the test of the country loop.
country_found(potential_country, rest) ==
    rest # <<>> /\ potential_country \in KnownCountries

RECURSIVE country_loop(_, _)
\* exits.py: the loop over the prefixes of remaining_parts, shortest first, then
\* the fallback; yields <<country_parts, city_parts>>.
country_loop(remaining_parts, i) ==
    IF i > Len(remaining_parts)
    THEN <<SubSeq(remaining_parts, 1, 1), Tail(remaining_parts)>>
    ELSE LET potential_country == Join(" ", SubSeq(remaining_parts, 1, i))
             rest == SubSeq(remaining_parts, i + 1, Len(remaining_parts))
         IN  IF country_found(potential_country, rest)
             THEN <<SubSeq(remaining_parts, 1, i), rest>>
             ELSE country_loop(remaining_parts, i + 1)

\* exits.py, lines 30-60: the record of a line that is no comment, if any.
LineNodesExits(line) ==
    LET parts == str_split(line)
        split == country_loop(SubSeq(parts, 3, Len(parts)), 1)
    IN  IF Len(parts) >= 4
        THEN <<Node(parts[1], parts[2], Join(" ", split[1]), Join(" ", split[2]))>>
        ELSE <<>>

RECURSIVE ParseLinesExits(_, _)
\* The loop of exits.py's parse_exit_nodes over the lines.
ParseLinesExits(lines, acc) ==
    IF lines = <<>> THEN acc
    ELSE IF is_comment(lines[1]) THEN ParseLinesExits(Tail(lines), acc)
    ELSE ParseLinesExits(Tail(lines), acc \o LineNodesExits(lines[1]))

\* exits.py: parse_exit_nodes(output)
exits_parse_exit_nodes(output) == ParseLinesExits(SplitLines(Strip(output)), <<>>)

\* get_unique_values gone wrong: one entry per record, duplicates kept.
RECURSIVE InsertSorted(_, _)
InsertSorted(v, seq) ==
    IF seq = <<>> THEN <<v>>
    ELSE IF StrLess(seq[1], v) THEN <<seq[1]>> \o InsertSorted(v, Tail(seq))
    ELSE <<v>> \o seq

RECURSIVE SortedWithDuplicates(_, _)
SortedWithDuplicates(ns, field) ==
    IF ns = <<>> THEN <<>>
    ELSE InsertSorted(ns[1][field], SortedWithDuplicates(Tail(ns), field))

get_values_with_duplicates(ns, field) == SortedWithDuplicates(ns, field)

\* sorted(list({node[field] for node in nodes})): get_unique_values of
\* set-exit.py, get_unique_countries of exits.py with field "country".
get_unique_values(ns, field) == Sorted({ns[i][field] : i \in 1..Len(ns)})

\* pattern.lower() in v.lower()
pattern_matches(p, v) == Contains(Lower(v), Lower(p))

RECURSIVE MatchingValues(_, _)
\* [v for v in values if pattern.lower() in v.lower()]
MatchingValues(p, vs) ==
    IF vs = <<>> THEN <<>>
    ELSE (IF pattern_matches(p, vs[1]) THEN <<vs[1]>> ELSE <<>>)
         \o MatchingValues(p, Tail(vs))

\* random_choice gone wrong: always the first element.
random_choice_first(seq) == {seq[1]}

\* random.choice(seq) on a non-empty list: any element.
random_choice(seq) == {seq[i] : i \in 1..Len(seq)}

\* is_none gone wrong: "none" is a pattern like any other.
is_none_never(p) == FALSE

\* set-exit.py get_node: pattern == "none"
is_none(p) == p = "none"

\* check_raises gone wrong: check=False.
check_raises_never(rc) == FALSE

\* subprocess.run(..., check=True) raises CalledProcessError on a non-zero exit.
check_raises(rc) == rc # 0

(***************************************************************************)
(* Messages.                                                               *)
(***************************************************************************)
MsgNoNodes == "No exit nodes found."

MsgInvalidIP == "Invalid IP address format."

\* set-exit.py writes "{field}s", exits.py writes "countries".
Plural(field) == IF script = "exits" THEN "countries" ELSE field \o "s"

MsgNoMatch(field, p, vs) ==
    "Error: No " \o field \o " matching '" \o p \o "' found. Available "
        \o Plural(field) \o ": " \o Join(", ", vs)

MsgAmbiguous(field, p, ms) ==
    "Error: Ambiguous match '" \o p \o "' matches multiple "
        \o Plural(field) \o ": " \o Join(", ", ms)

MsgPreview(ip, node) ==
    "Would set exit node to: " \o ip \o " (" \o node.hostname \o ", "
        \o node.city \o ", " \o node.country \o ")"

MsgSet(ip) == "Exit node set to: " \o ip

ListArgv == <<"tailscale", "exit-node", "list">>

SetArgv(ip) == <<"tailscale", "set", "--exit-node", ip>>

\* One subprocess.run: what was run and the exit code it came back with.
Call(argv, rc) == [argv |-> argv, rc |-> rc]

(***************************************************************************)
(* Inputs.                                                                 *)
(***************************************************************************)
Scripts == {"set-exit", "exits"}

\* The lines a listing is made of: well-formed rows (two of one country, a
\* multi-word country, a value that is a substring of another), a comment
\* that would parse as a row, an indented "#" row, a row whose ip is no dotted
\* quad, a row that ends in a known country, and a row of too few columns.
LinePool ==
    { "100.64.0.1   node-se-1   Sweden         Stockholm",
      "100.64.0.2   node-se-2   Sweden         Gothenburg",
      "100.64.0.3   node-uk-1   United Kingdom  London",
      "100.64.0.4  node-ne-1  Niger  Niamey",
      "10.0.0  node-ng-1  Nigeria  Abuja",
      "# 100.64.0.9  node-se-9  Sweden  Malmo",
      " #IP  HOSTNAME  COUNTRY  CITY",
      "100.64.0.6 node-uk-2 United Kingdom",
      "100.64.0.7  node-x" }

Patterns == {"none", "sweden", "niger", "united", "o", "xyz"}

\* The text a sequence of lines is printed as.
RECURSIVE Unlines(_)
Unlines(ls) == IF ls = <<>> THEN "" ELSE ls[1] \o "\n" \o Unlines(Tail(ls))

Listings == {Unlines(ls) : ls \in UNION {[1..n -> LinePool] : n \in 0..MaxLines}}

\* The listing of the end-to-end example: one blank between "United Kingdom"
\* and "London".
E2EListing ==
    Unlines(<< "100.64.0.1   node-se-1   Sweden         Stockholm",
               "100.64.0.2   node-se-2   Sweden         Gothenburg",
               "100.64.0.3   node-uk-1   United Kingdom London" >>)

E2EPatterns == {"sweden", "gothen", "united", "none", "node", "xyz"}

\* The field the pattern is matched against (set-exit.py main, lines 32-37;
\* exits.py matches the country).
field ==
    IF script = "exits" THEN "country"
    ELSE IF hostname THEN "hostname"
    ELSE IF city THEN "city"
    ELSE "country"

\* The state of a run that has not started.
InitRun ==
    /\ pc = "start"
    /\ nodes = <<>>
    /\ values = <<>>
    /\ matching_values = <<>>
    /\ filtered_nodes = <<>>
    /\ selected_node = None
    /\ main_selected_node = None
    /\ node_ip = ""
    /\ calls = <<>>
    /\ stdout = <<>>
    /\ stderr = <<>>
    /\ outcome = "running"

\* exits.py has neither --hostname nor --city.
InitArgs ==
    /\ script \in Scripts
    /\ hostname \in BOOLEAN
    /\ city \in BOOLEAN
    /\ script = "exits" => ~hostname /\ ~city
    /\ dry_run \in BOOLEAN

Init ==
    /\ InitArgs
    /\ pattern \in Patterns
    /\ listing \in Listings
    /\ InitRun

InitE2E ==
    /\ InitArgs
    /\ pattern \in E2EPatterns
    /\ listing = E2EListing
    /\ InitRun

(***************************************************************************)
(* The steps of a run.                                                     *)
(***************************************************************************)
\* get_node / exits.py main return after an error was reported: set-exit.py's
\* main goes on with None, exits.py's main is over.
ReturnNone ==
    IF script = "set-exit"
    THEN /\ main_selected_node' = None
         /\ pc' = "main"
         /\ outcome' = outcome
    ELSE /\ main_selected_node' = main_selected_node
         /\ pc' = "done"
         /\ outcome' = "returned"

\* The run enters main: set-exit.py calls get_node, which returns the empty
\* node for "none" without a call; exits.py goes straight to the listing.
Start ==
    /\ pc = "start"
    /\ IF script = "set-exit" /\ is_none(pattern)
       THEN /\ main_selected_node' = EmptyNode
            /\ pc' = "main"
       ELSE /\ main_selected_node' = main_selected_node
            /\ pc' = "list"
    /\ UNCHANGED <<inputs, nodes, values, matching_values, filtered_nodes,
                   selected_node, node_ip, calls, stdout, stderr, outcome>>

\* The code between the listing call and random.choice: parse, enumerate,
\* match, filter.
AfterListing(output) ==
    \E ns \in {IF script = "exits" THEN exits_parse_exit_nodes(output)
               ELSE parse_exit_nodes(output)} :
    \E vs \in {get_unique_values(ns, field)} :
    \E ms \in {MatchingValues(pattern, vs)} :
        /\ nodes' = ns
        /\ values' = vs
        /\ IF vs = <<>>
           THEN /\ stderr' = Append(stderr, MsgNoNodes)
                /\ matching_values' = matching_values
                /\ filtered_nodes' = filtered_nodes
                /\ ReturnNone
           ELSE /\ matching_values' = ms
                /\ IF ms = <<>>
                   THEN /\ stderr' = Append(stderr, MsgNoMatch(field, pattern, vs))
                        /\ filtered_nodes' = filtered_nodes
                        /\ ReturnNone
                   ELSE IF Len(ms) > 1
                   THEN /\ stderr' = Append(stderr, MsgAmbiguous(field, pattern, ms))
                        /\ filtered_nodes' = filtered_nodes
                        /\ ReturnNone
                   ELSE /\ stderr' = stderr
                        /\ filtered_nodes' = SelectSeqOf(ns, field, ms[1])
                        /\ main_selected_node' = main_selected_node
                        /\ pc' = "choose"
                        /\ outcome' = outcome

\* get_exit_node_list(): the listing collaborator runs and exits with rc.
get_exit_node_list ==
    /\ pc = "list"
    /\ \E rc \in {0, 1} :
          /\ calls' = Append(calls, Call(ListArgv, rc))
          /\ IF check_raises(rc)
             THEN /\ outcome' = "CalledProcessError"
                  /\ pc' = "done"
                  /\ UNCHANGED <<nodes, values, matching_values, filtered_nodes,
                                 main_selected_node, stderr>>
             ELSE AfterListing(listing)
    /\ UNCHANGED <<inputs, selected_node, node_ip, stdout>>

\* PreviewOrSet gone wrong: the preview is printed and the node activated all
\* the same.
PreviewAndSet(ip, node) ==
    /\ stdout' = (IF dry_run THEN Append(stdout, MsgPreview(ip, node)) ELSE stdout)
    /\ pc' = "set"
    /\ outcome' = outcome

\* main's last lines (set-exit.py 42-48, exits.py 121-124): the preview, or on
\* to set_exit_node.
PreviewOrSet(ip, node) ==
    IF dry_run
    THEN /\ stdout' = Append(stdout, MsgPreview(ip, node))
         /\ pc' = "done"
         /\ outcome' = "returned"
    ELSE /\ stdout' = stdout
         /\ pc' = "set"
         /\ outcome' = outcome

\* random.choice(filtered_nodes) and the validation of the ip.
Choose ==
    /\ pc = "choose"
    /\ IF filtered_nodes = <<>>
       THEN /\ outcome' = "IndexError"
            /\ pc' = "done"
            /\ UNCHANGED <<selected_node, main_selected_node, node_ip, stdout, stderr>>
       ELSE \E n \in random_choice(filtered_nodes) :
               /\ selected_node' = n
               /\ IF ~re_match_ip(n.ip)
                  THEN /\ stderr' = Append(stderr, MsgInvalidIP)
                       /\ node_ip' = IF script = "exits" THEN n.ip ELSE node_ip
                       /\ stdout' = stdout
                       /\ ReturnNone
                  ELSE /\ stderr' = stderr
                       /\ IF script = "set-exit"
                          THEN /\ main_selected_node' = n
                               /\ node_ip' = node_ip
                               /\ stdout' = stdout
                               /\ pc' = "main"
                               /\ outcome' = outcome
                          ELSE /\ main_selected_node' = main_selected_node
                               /\ node_ip' = n.ip
                               /\ PreviewOrSet(n.ip, n)
    /\ UNCHANGED <<inputs, nodes, values, matching_values, filtered_nodes, calls>>

\* set-exit.py main, lines 40-48: subscripting None raises TypeError.
Main ==
    /\ pc = "main"
    /\ IF main_selected_node = None
       THEN /\ outcome' = "TypeError"
            /\ pc' = "done"
            /\ UNCHANGED <<node_ip, stdout>>
       ELSE /\ node_ip' = main_selected_node.ip
            /\ PreviewOrSet(main_selected_node.ip, main_selected_node)
    /\ UNCHANGED <<inputs, nodes, values, matching_values, filtered_nodes,
                   selected_node, main_selected_node, calls, stderr>>

\* set_exit_node(node_ip): the activation collaborator runs and exits with rc.
set_exit_node ==
    /\ pc = "set"
    /\ \E rc \in {0, 1} :
          /\ calls' = Append(calls, Call(SetArgv(node_ip), rc))
          /\ IF check_raises(rc)
             THEN /\ outcome' = "CalledProcessError"
                  /\ stdout' = stdout
             ELSE /\ outcome' = "returned"
                  /\ stdout' = Append(stdout, MsgSet(node_ip))
    /\ pc' = "done"
    /\ UNCHANGED <<inputs, locals, stderr>>

Next == Start \/ get_exit_node_list \/ Choose \/ Main \/ set_exit_node

Spec == Init /\ [][Next]_vars

SpecE2E == InitE2E /\ [][Next]_vars

\* The runs the properties of parse_exit_nodes are stated of: every listing,
\* two patterns.
ParsePatterns == {"sweden", "united"}

InitParse ==
    /\ InitArgs
    /\ pattern \in ParsePatterns
    /\ listing \in Listings
    /\ InitRun

SpecParse == InitParse /\ [][Next]_vars

(***************************************************************************)
(* Repeated trials: the same command line run again and again against the  *)
(* same listing.                                                           *)
(***************************************************************************)
\* Two rows of one country and one of another; the same with the first row
\* printed twice.
RepeatListings ==
    { E2EListing,
      Unlines(<< "100.64.0.1   node-se-1   Sweden         Stockholm",
                 "100.64.0.1   node-se-1   Sweden         Stockholm",
                 "100.64.0.2   node-se-2   Sweden         Gothenburg",
                 "100.64.0.4  node-ne-1  Niger  Niamey" >>) }

RepeatPatterns == {"sweden", "stock", "node", "niger", "none"}

InitRepeat ==
    /\ InitArgs
    /\ pattern \in RepeatPatterns
    /\ listing \in RepeatListings
    /\ InitRun

\* The script is run again: `if __name__ == "__main__": main()` with the same
\* arguments, all of the last run's state gone.
Rerun ==
    /\ pc = "done"
    /\ pc' = "start"
    /\ nodes' = <<>>
    /\ values' = <<>>
    /\ matching_values' = <<>>
    /\ filtered_nodes' = <<>>
    /\ selected_node' = None
    /\ main_selected_node' = None
    /\ node_ip' = ""
    /\ calls' = <<>>
    /\ stdout' = <<>>
    /\ stderr' = <<>>
    /\ outcome' = "running"
    /\ UNCHANGED inputs

NextRepeat == Next \/ Rerun

\* Every record a repeated trial can parse.
NodeUniverse ==
    UNION { {parse_exit_nodes(l)[i] : i \in 1..Len(parse_exit_nodes(l))}
            \cup {exits_parse_exit_nodes(l)[i] : i \in 1..Len(exits_parse_exit_nodes(l))}
            : l \in RepeatListings }

\* random.choice returns n.
ChooseNode(n) == Choose /\ selected_node' = n

\* random.choice is fair: an element that can be drawn again and again is
\* drawn again and again.
SpecRepeat ==
    /\ InitRepeat
    /\ [][NextRepeat]_vars
    /\ \A n \in NodeUniverse : SF_vars(ChooseNode(n))

(***************************************************************************)
(* What the properties speak of.                                           *)
(***************************************************************************)
IsListCall(c) == c.argv = ListArgv

IsSetCall(c) == Len(c.argv) = 4 /\ SubSeq(c.argv, 1, 3) = <<"tailscale", "set", "--exit-node">>

ListCalls == {i \in 1..Len(calls) : IsListCall(calls[i])}

SetCalls == {i \in 1..Len(calls) : IsSetCall(calls[i])}

\* The ip handed to the activation collaborator by call i.
SetIp(i) == calls[i].argv[4]

\* ^\d{1,3}\.\d{1,3}\.\d{1,3}\.\d{1,3}$ read as a shape: three dots, and
\* before, between and after them one to three digits.
IsDottedQuad(ip) ==
    \E a, b, c \in 1..Len(ip) :
        /\ a < b /\ b < c
        /\ Char(ip, a) = "." /\ Char(ip, b) = "." /\ Char(ip, c) = "."
        /\ \A seg \in {<<1, a - 1>>, <<a + 1, b - 1>>, <<b + 1, c - 1>>, <<c + 1, Len(ip)>>} :
              /\ seg[2] - seg[1] + 1 \in 1..3
              /\ \A i \in seg[1]..seg[2] : Char(ip, i) \in Digits

\* The records of the parsed listing.
NodeSet == {nodes[i] : i \in 1..Len(nodes)}

\* The listing collaborator was run and exited with 0, so the listing was parsed.
ListingRead == \E i \in ListCalls : calls[i].rc = 0

\* The run is in the short circuit of set-exit.py for the pattern "none".
NoneRun == script = "set-exit" /\ pattern = "none"

\* The node main goes on with once the pipeline succeeded: what get_node returned
\* (set-exit.py), the validated choice (exits.py).
PipelineSucceeded ==
    IF script = "set-exit"
    THEN main_selected_node # None
    ELSE selected_node # None /\ stderr = <<>>

ChosenNode == IF script = "set-exit" THEN main_selected_node ELSE selected_node

FailureKind ==
    IF ~ListingRead THEN "none"
    ELSE IF nodes = <<>> THEN "EmptyListing"
    ELSE IF matching_values = <<>> THEN "NoMatch"
    ELSE IF Len(matching_values) > 1 THEN "AmbiguousMatch"
    ELSE IF selected_node # None /\ ~IsDottedQuad(selected_node.ip) THEN "InvalidIPFormat"
    ELSE "none"

\* C3: after EmptyListing, NoMatch, AmbiguousMatch or InvalidIPFormat an error
\* message stands on the error stream, no preview was printed, the activation
\* collaborator was not invoked, and the run ends by returning, not in an
\* exception.
C3_FailureTerminalAndClean ==
    FailureKind # "none" =>
        /\ stderr # <<>>
        /\ stdout = <<>>
        /\ SetCalls = {}
        /\ pc \in {"main", "done"}
        /\ pc = "done" => outcome = "returned"

(***************************************************************************)
(* C4. The number of distinct matching values decides the match.           *)
(***************************************************************************)
\* The distinct values of the chosen field among the parsed records.
FieldValues == {n[field] : n \in NodeSet}

\* Those that contain the pattern, case ignored.
MatchingSet == {v \in FieldValues : Contains(Lower(v), Lower(pattern))}

\* C4: once a non-empty listing is parsed, no distinct value of the field
\* containing the pattern gives the no-match error with all values, two or more
\* give the ambiguous-match error with exactly those values, and exactly one is
\* the value the run goes on with: the records of that value are the candidates,
\* and neither error is reported.
C4_DistinctValuesDecide ==
    ListingRead /\ nodes # <<>> =>
        /\ MatchingSet = {} =>
              /\ stderr = <<MsgNoMatch(field, pattern, Sorted(FieldValues))>>
              /\ pc \in {"main", "done"} /\ selected_node = None
        /\ Cardinality(MatchingSet) >= 2 =>
              /\ stderr = <<MsgAmbiguous(field, pattern, Sorted(MatchingSet))>>
              /\ pc \in {"main", "done"} /\ selected_node = None
        /\ Cardinality(MatchingSet) = 1 =>
              /\ stderr \in {<<>>, <<MsgInvalidIP>>}
              /\ MatchingSet = {matching_values[1]}
              /\ filtered_nodes = SelectSeq(nodes, LAMBDA n : n[field] \in MatchingSet)

\* Two records of one country, matched by a pattern in another case, went on to
\* the choice; nothing was reported.
C4_Witness ==
    /\ Len(nodes) = 2
    /\ nodes[1].country = "Sweden" /\ nodes[2].country = "Sweden"
    /\ field = "country"
    /\ pattern = "sweden"
    /\ pc = "choose"
    /\ Len(filtered_nodes) = 2
    /\ stderr = <<>>

(***************************************************************************)
(* C5. The selection is a record of the matched value, and each of them    *)
(* can be the one.                                                         *)
(***************************************************************************)
\* The records whose field is the one matched value.
Candidates == {n \in NodeSet : n[field] \in MatchingSet}

\* In every state: where exactly one distinct value matches, there is a record
\* of that value, and the node chosen is one of them.
C5_SelectedAmongCandidates ==
    ListingRead /\ Cardinality(MatchingSet) = 1 =>
        /\ Candidates # {}
        /\ pc = "choose" => filtered_nodes # <<>>
        /\ pc \in {"main", "set", "done"} => selected_node \in Candidates

\* C5: where the pattern matches exactly one distinct value, the records of that
\* value are not none, the selected node is always one of them, and under
\* repeated fair selection every one of them is returned again and again.
C5_EveryCandidateReturned ==
    /\ []C5_SelectedAmongCandidates
    /\ \A n \in NodeUniverse :
          []<>(pc = "choose" /\ n \in Candidates) => []<>(pc # "choose" /\ selected_node = n)

\* The second of two records of one country was the one selected.
C5_Witness ==
    /\ listing = E2EListing
    /\ pattern = "sweden"
    /\ field = "country"
    /\ Cardinality(Candidates) = 2
    /\ pc = "done"
    /\ selected_node = nodes[2]

(***************************************************************************)
(* C6. The end-to-end example.                                             *)
(***************************************************************************)
\* The example's listing was read and the run is over (the activation call, if
\* any, made).
E2EDone == listing = E2EListing /\ ListingRead /\ pc = "done"

PreviewShows(a, b) ==
    /\ Len(stdout) = 1
    /\ StartsWith(stdout[1], "Would set exit node to: ")
    /\ Contains(stdout[1], a)
    /\ Contains(stdout[1], b)

\* The first two sentences of the example: "sweden" on country selects
\* 100.64.0.1 or 100.64.0.2, "gothen" on city selects 100.64.0.2.
E2ESwedenAndGothen ==
    /\ pattern = "sweden" /\ field = "country" =>
          /\ selected_node # None
          /\ selected_node.ip \in {"100.64.0.1", "100.64.0.2"}
    /\ pattern = "gothen" /\ field = "city" =>
          /\ selected_node # None
          /\ selected_node.ip = "100.64.0.2"

\* C6 as claimed: on the example's listing "sweden" on country yields 100.64.0.1
\* or 100.64.0.2, "gothen" on city yields 100.64.0.2, and "united" on country
\* with dry-run yields a preview with "United Kingdom" and "London" and no
\* activation call.
C6_EndToEnd ==
    E2EDone =>
        /\ E2ESwedenAndGothen
        /\ pattern = "united" /\ field = "country" /\ dry_run =>
              /\ PreviewShows("United Kingdom", "London")
              /\ SetCalls = {}

\* C6 as amended: "sweden" and "gothen" as claimed; "united" on country with
\* dry-run yields that preview, and no activation call, in exits.py; in
\* set-exit.py the third line, with its single blank before "London", has three
\* fields and is dropped, so "united" is reported as matching no country, there
\* is no preview and no activation call.
C6_EndToEndByScript ==
    E2EDone =>
        /\ E2ESwedenAndGothen
        /\ pattern = "united" /\ field = "country" /\ dry_run =>
              /\ SetCalls = {}
              /\ script = "exits" => PreviewShows("United Kingdom", "London")
              /\ script = "set-exit" =>
                    /\ Len(nodes) = 2
                    /\ stderr = <<"Error: No country matching 'united' found. Available countrys: Sweden">>
                    /\ stdout = <<>>

\* exits.py previewed the node of the United Kingdom.
C6_Witness ==
    /\ E2EDone
    /\ script = "exits"
    /\ pattern = "united"
    /\ dry_run
    /\ stdout = <<"Would set exit node to: 100.64.0.3 (node-uk-1, London, United Kingdom)">>
    /\ calls = <<Call(ListArgv, 0)>>

(***************************************************************************)
(* C7. Dry-run has no side effect; without it the selected node is         *)
(* activated once and success reported after exit code 0.                  *)
(***************************************************************************)
\* C7: with dry-run the activation collaborator is never invoked and a
\* successful pipeline ends in the preview of the selected node's ip, hostname,
\* city and country; without dry-run a successful pipeline ends with exactly one
\* activation call, with the selected node's ip, and "Exit node set to" is
\* printed only if that call came back with exit code 0.
C7_DryRunOrActivateOnce ==
    /\ dry_run => SetCalls = {}
    /\ dry_run /\ PipelineSucceeded /\ pc = "done" =>
          /\ outcome = "returned"
          /\ stdout = << "Would set exit node to: " \o ChosenNode.ip \o " ("
                         \o ChosenNode.hostname \o ", " \o ChosenNode.city \o ", "
                         \o ChosenNode.country \o ")" >>
    /\ ~dry_run /\ PipelineSucceeded /\ pc = "done" =>
          /\ Cardinality(SetCalls) = 1
          /\ \A i \in SetCalls : SetIp(i) = ChosenNode.ip
    /\ \A k \in 1..Len(stdout) :
          StartsWith(stdout[k], "Exit node set to: ") =>
              /\ ~dry_run
              /\ stdout = <<"Exit node set to: " \o ChosenNode.ip>>
              /\ calls[Len(calls)] = Call(SetArgv(ChosenNode.ip), 0)

\* A dry run that previewed a node of a multi-word country.
C7_Witness ==
    /\ dry_run
    /\ pc = "done"
    /\ PipelineSucceeded
    /\ ChosenNode.country = "United Kingdom"
    /\ ListingRead
    /\ SetCalls = {}

(***************************************************************************)
(* C8. parse_exit_nodes: one record per line that is no comment and has at *)
(* least four fields.                                                      *)
(***************************************************************************)
\* The records of a line under the script's tokenization, comment or not.
LineNodes(line) ==
    IF script = "exits" THEN LineNodesExits(line) ELSE LineNodesSetExit(line)

RECURSIVE RecordsOf(_)
\* One record per line that does not begin with "#" and has four fields or more.
RecordsOf(lines) ==
    IF lines = <<>> THEN <<>>
    ELSE (IF StartsWith(lines[1], "#") THEN <<>> ELSE LineNodes(lines[1]))
         \o RecordsOf(Tail(lines))

\* C8: the parsed records are, in order and with duplicates, the records of the
\* lines of the listing that do not begin with "#" and have at least four fields.
C8_OneRecordPerLine ==
    ListingRead => nodes = RecordsOf(SplitLines(listing))

(***************************************************************************)
(* C9. exits.py: where the country ends and the city begins.               *)
(***************************************************************************)
\* The prefixes r1..ri of the tokens that are a known country and leave a token.
KnownPrefixes(r) ==
    {i \in 1..(Len(r) - 1) : Join(" ", SubSeq(r, 1, i)) \in KnownCountries}

\* The country and the city of the tokens r1..rk after ip and hostname.
CountryOf(r) ==
    IF KnownPrefixes(r) # {} THEN Join(" ", SubSeq(r, 1, Min(KnownPrefixes(r)))) ELSE r[1]

CityOf(r) ==
    IF KnownPrefixes(r) # {}
    THEN Join(" ", SubSeq(r, Min(KnownPrefixes(r)) + 1, Len(r)))
    ELSE Join(" ", Tail(r))

\* The lines parse_exit_nodes of exits.py makes a record of, as their tokens.
RowTokens ==
    LET lines == SplitLines(Strip(listing))
        rows == SelectSeq(lines, LAMBDA l : ~StartsWith(l, "#") /\ Len(str_split(l)) >= 4)
    IN  [k \in 1..Len(rows) |-> str_split(rows[k])]

\* C9: in exits.py the record of a line with tokens ip, hostname, r1..rk has as
\* country the shortest prefix of r that is a known country and leaves a token,
\* and as city what is left, or else r1 and r2..rk; so no city is empty, and
\* the tokens United Kingdom with nothing after them are country "United", city
\* "Kingdom".
C9_CountryCitySplit ==
    script = "exits" /\ ListingRead =>
        /\ Len(nodes) = Len(RowTokens)
        /\ \A k \in 1..Len(nodes) :
              LET r == SubSeq(RowTokens[k], 3, Len(RowTokens[k]))
              IN  /\ nodes[k].ip = RowTokens[k][1]
                  /\ nodes[k].hostname = RowTokens[k][2]
                  /\ nodes[k].country = CountryOf(r)
                  /\ nodes[k].city = CityOf(r)
                  /\ nodes[k].city # ""
                  /\ r = <<"United", "Kingdom">> =>
                        nodes[k].country = "United" /\ nodes[k].city = "Kingdom"

\* exits.py parsed a row that ends in "United Kingdom" and one that goes on
\* after it.
C9_Witness ==
    /\ script = "exits"
    /\ ListingRead
    /\ Len(nodes) = 2
    /\ nodes[1].country = "United Kingdom" /\ nodes[1].city = "London"
    /\ nodes[2].country = "United" /\ nodes[2].city = "Kingdom"

(***************************************************************************)
(* C10. A failing collaborator is fatal and nothing is retried.            *)
(***************************************************************************)
\* C10: each collaborator is invoked at most once; after a non-zero exit of the
\* listing collaborator the run is over in CalledProcessError with nothing
\* parsed, matched, printed or activated; after a non-zero exit of the
\* activation collaborator the run is over in CalledProcessError and "Exit node
\* set to" was not printed.
C10_CollaboratorFailureFatal ==
    /\ Cardinality(ListCalls) <= 1
    /\ Cardinality(SetCalls) <= 1
    /\ \A i \in ListCalls : calls[i].rc # 0 =>
          /\ pc = "done" /\ outcome = "CalledProcessError"
          /\ Len(calls) = 1
          /\ nodes = <<>> /\ values = <<>> /\ matching_values = <<>>
          /\ filtered_nodes = <<>> /\ selected_node = None
          /\ stdout = <<>> /\ stderr = <<>>
    /\ \A i \in SetCalls : calls[i].rc # 0 =>
          /\ pc = "done" /\ outcome = "CalledProcessError"
          /\ i = Len(calls)
          /\ \A k \in 1..Len(stdout) : ~StartsWith(stdout[k], "Exit node set to")

\* A run whose activation call failed after a successful listing.
C10_Witness ==
    /\ pc = "done"
    /\ Len(calls) = 2
    /\ calls[1].rc = 0
    /\ IsSetCall(calls[2]) /\ calls[2].rc = 1
    /\ outcome = "CalledProcessError"

=============================================================================
